---- MODULE Spec2Model ----
(***************************************************************************)
(* Model of src/components/ElevationAnalysis.js: the loadData effect, the  *)
(* processData pipeline (group, sort, align by rounded distance,           *)
(* difference, trapezoidal integral) and the site-selection handlers.      *)
(*                                                                         *)
(* Numbers.  distAlong is held as an integer count of 1/DistDenom metres   *)
(* (DistDenom a power of two, so every modelled distance is an exact       *)
(* double and toFixed(3) is computed exactly).  Elevations are whole       *)
(* metres.  An integral is held as an integer count of 1/(2*DistDenom)     *)
(* square metres: avgDiff * actualDx = ((a + b) / 2) * ((d1 - d0) /        *)
(* DistDenom) = (a + b) * (d1 - d0) / (2 * DistDenom), exact in doubles.   *)
(*                                                                         *)
(* Values.  A cell of a parsed row is a natural number, or one of three    *)
(* negative codes when the parser delivered null, undefined or a string.   *)
(* A field computed by processData is <<n>> for the number n, <<>> for     *)
(* null, and a pair for undefined, for a string and for NaN.               *)
(***************************************************************************)
EXTENDS Integers, Sequences, FiniteSets, TLC

VARIABLES pc, data, selectedSites, rawData, matchedPoints, processCalls

vars == <<pc, data, selectedSites, rawData, matchedPoints, processCalls>>

(* ---------------------------- bounds ---------------------------------- *)

\* Longest parsed record sequence of the component specification.
MaxLen == 2

\* Most records per survey year in the single-site specification.
MaxGroupLen == 2

\* Longest record sequence of the permutation specification.
MaxPermLen == 3

\* Distances are 0 .. MaxDist, in units of 1/DistDenom metres.
MaxDist == 2

\* Most stations of a survey line in the single-site specification.
MaxStations == 4

DistDenom == 2 ^ 11

Elevations == {0, 1}

SiteNames == {"AHA", "FAL"}

\* 2022 stands for any year value that is neither survey year.
YearValues == {2021, 2022, 2024}

LoadErrors == {"No file found in either location", "Failed to fetch"}

ParseErrors == {"parse error"}

(* ---------------------------- helpers --------------------------------- *)

NULL == "null"

NoNumber == <<>>

Some(n) == <<n>>

\* The values that are neither a number nor null: pairs, so that they differ
\* from every <<n>>.
NaN == <<0, 0>>

Undefined == <<0, 1>>

Text == <<0, 2>>

\* JavaScript ToNumber on an operand of a subtraction or an addition of
\* numbers: null is 0, undefined and a string that is no numeral are NaN.
ToNumber(o) ==
    IF o = NoNumber THEN Some(0) ELSE IF Len(o) = 1 THEN o ELSE NaN

\* a - b
Minus(a, b) ==
    LET x == ToNumber(a)
        y == ToNumber(b)
    IN  IF x = NaN \/ y = NaN THEN NaN ELSE Some(x[1] - y[1])

\* a + b on numbers, null and NaN
Plus(a, b) ==
    LET x == ToNumber(a)
        y == ToNumber(b)
    IN  IF x = NaN \/ y = NaN THEN NaN ELSE Some(x[1] + y[1])

Range(s) == {s[i] : i \in DOMAIN s}

Front(s) == SubSeq(s, 1, Len(s) - 1)

Last(s) == s[Len(s)]

\* Raw Records: distAlong and elevation are numbers.
Records(sites, years) ==
    [site : sites, year : years, distAlong : 0 .. MaxDist, elevation : Elevations]

\* A distAlong or elevation cell that holds no number: null for an empty
\* cell, undefined for a row too short to have the cell, a string for text
\* that is no numeral.  The three are kept apart from the numbers by being
\* negative.
NullCell == -1

UndefinedCell == -2

TextCell == -3

NotANumber == {NullCell, UndefinedCell, TextCell}

\* The value a cell of a row holds.
CellValue(cell) ==
    CASE cell = NullCell -> NoNumber
      [] cell = UndefinedCell -> Undefined
      [] cell = TextCell -> Text
      [] OTHER -> Some(cell)

\* Every row the parser can deliver: a numeric distAlong with any elevation
\* cell, or a distAlong that is no number.  The elevation of a row without a
\* numeric distAlong is never read (toFixed throws first, and a row of
\* another year is not read at all), so one value stands for it.
ParsedRows(sites, years) ==
    [site : sites, year : years, distAlong : 0 .. MaxDist,
     elevation : Elevations \cup NotANumber]
        \cup [site : sites, year : years, distAlong : NotANumber, elevation : {0}]

(* ------------------------- processData -------------------------------- *)

\* _.groupBy(rawData, row => `${row.site}_${row.year}`)[`${site}_${year}`] || []
GroupBy(raw, site, year) ==
    SelectSeq(raw, LAMBDA r : r.site = site /\ r.year = year)

RECURSIVE UniqueSites(_)
\* [...new Set(rawData.map(row => row.site))]
UniqueSites(raw) ==
    IF raw = <<>> THEN <<>>
    ELSE LET u == UniqueSites(Front(raw))
         IN  IF Last(raw).site \in Range(u) THEN u ELSE Append(u, Last(raw).site)

\* Slip: r goes in front of the elements of equal distAlong.
InsertByDistStrict(sorted, r) ==
    LET k == Cardinality({i \in DOMAIN sorted : sorted[i].distAlong < r.distAlong})
    IN  SubSeq(sorted, 1, k) \o <<r>> \o SubSeq(sorted, k + 1, Len(sorted))

\* Place r behind every element whose distAlong is not greater.
InsertByDist(sorted, r) ==
    LET k == Cardinality({i \in DOMAIN sorted : sorted[i].distAlong <= r.distAlong})
    IN  SubSeq(sorted, 1, k) \o <<r>> \o SubSeq(sorted, k + 1, Len(sorted))

\* Slip: the sort is left out.
NoSort(s) == s

RECURSIVE SortByDist(_)
\* .sort((a, b) => a.distAlong - b.distAlong), a stable sort
SortByDist(s) ==
    IF s = <<>> THEN <<>> ELSE InsertByDist(SortByDist(Front(s)), Last(s))

Decimals == 3

\* row.distAlong.toFixed(3), as the integer number of thousandths it prints:
\* the nearest multiple of 10^-3, the larger one on a tie.
toFixed(d) == (2 * (10 ^ Decimals) * d + DistDenom) \div (2 * DistDenom)

\* Position of key k among the own properties of matchedPoints, 0 if absent.
IndexOfKey(mp, k) ==
    IF \E i \in DOMAIN mp : mp[i].key = k
    THEN CHOOSE i \in DOMAIN mp : mp[i].key = k
    ELSE 0

\* Slip: the first record of a rounding bucket is kept.
Put2021KeepFirst(mp, row) ==
    LET roundedDist == toFixed(row.distAlong)
        point == [key |-> roundedDist, distAlong |-> row.distAlong,
                  elev2021 |-> CellValue(row.elevation), elev2024 |-> NoNumber,
                  diff |-> NoNumber]
    IN  IF IndexOfKey(mp, roundedDist) = 0 THEN Append(mp, point) ELSE mp

\* Body of data2021.forEach: matchedPoints[roundedDist] = {...}
Put2021(mp, row) ==
    LET roundedDist == toFixed(row.distAlong)
        point == [key |-> roundedDist, distAlong |-> row.distAlong,
                  elev2021 |-> CellValue(row.elevation), elev2024 |-> NoNumber,
                  diff |-> NoNumber]
        i == IndexOfKey(mp, roundedDist)
    IN  IF i = 0 THEN Append(mp, point) ELSE [mp EXCEPT ![i] = point]

\* Body of data2024.forEach
Put2024(mp, row) ==
    LET roundedDist == toFixed(row.distAlong)
        i == IndexOfKey(mp, roundedDist)
    IN  IF i # 0
        THEN [mp EXCEPT ![i].elev2024 = CellValue(row.elevation),
                        ![i].diff = Minus(CellValue(row.elevation), mp[i].elev2021)]
        ELSE Append(mp, [key |-> roundedDist, distAlong |-> row.distAlong,
                         elev2021 |-> NoNumber, elev2024 |-> CellValue(row.elevation),
                         diff |-> NoNumber])

RECURSIVE Each2021(_, _)
Each2021(mp, rows) ==
    IF rows = <<>> THEN mp ELSE Put2021(Each2021(mp, Front(rows)), Last(rows))

RECURSIVE Each2024(_, _)
Each2024(mp, rows) ==
    IF rows = <<>> THEN mp ELSE Put2024(Each2024(mp, Front(rows)), Last(rows))

\* The matchedPoints object of one site, its properties in insertion order.
MatchedPoints(data2021, data2024) == Each2024(Each2021(<<>>, data2021), data2024)

\* Slips of the filter: testing diff alone, or the later year alone.
HasDiff(point) == point.diff # NoNumber

Has2024(point) == point.elev2024 # NoNumber

\* point.elev2021 !== null && point.elev2024 !== null
BothYears(point) == point.elev2021 # NoNumber /\ point.elev2024 # NoNumber

\* Object.values(matchedPoints).filter(...).sort(...)
MatchedPointsArray(mp) == SortByDist(SelectSeq(mp, BothYears))

Differences(arr) ==
    [i \in DOMAIN arr |-> [distAlong |-> arr[i].distAlong, difference |-> arr[i].diff]]

\* Slip: a rectangle rule, the height taken at the right end only.
Rectangle(prev, point) ==
    LET twice == Plus(point.diff, point.diff)
    IN  IF twice = NaN THEN NaN
        ELSE Some(twice[1] * (point.distAlong - prev.distAlong))

\* One step of the running sum: avgDiff * actualDx in 1/(2*DistDenom) m^2,
\* NaN when a difference is NaN.
Trapezoid(prev, point) ==
    LET sum == Plus(point.diff, prev.diff)
    IN  IF sum = NaN THEN NaN
        ELSE Some(sum[1] * (point.distAlong - prev.distAlong))

RECURSIVE RunningSum(_, _)
\* runningSum after the callback of map has handled the entry at index.
RunningSum(arr, index) ==
    IF index <= 1 THEN Some(0)
    ELSE Plus(RunningSum(arr, index - 1), Trapezoid(arr[index - 1], arr[index]))

Integral(arr) ==
    [i \in DOMAIN arr |-> [distAlong |-> arr[i].distAlong, integral |-> RunningSum(arr, i)]]

Profile(raw, site, year) == SortByDist(GroupBy(raw, site, year))

\* One pass of the sites.forEach body: what it stores for the site, and the
\* matchedPoints object it builds on the way.
SiteResult(data2021, data2024) ==
    LET mp == MatchedPoints(data2021, data2024)
        matchedPointsArray == MatchedPointsArray(mp)
    IN  [byYear |-> [y \in {2021, 2024} |-> IF y = 2021 THEN data2021 ELSE data2024],
         matchedPoints |-> mp,
         differences |-> Differences(matchedPointsArray),
         integral |-> Integral(matchedPointsArray)]

\* The sites.forEach loop.
ForEachSite(raw, sites) ==
    [s \in Range(sites) |-> SiteResult(Profile(raw, s, 2021), Profile(raw, s, 2024))]

\* The object handed to setData.
Snapshot(sites, each) ==
    [byYearSite |-> [s \in DOMAIN each |-> each[s].byYear],
     differencesBySite |-> [s \in DOMAIN each |-> each[s].differences],
     integralBySite |-> [s \in DOMAIN each |-> each[s].integral],
     sites |-> sites,
     isLoading |-> FALSE,
     error |-> NULL]

\* The value processData hands to setData.
processData(raw) ==
    LET sites == UniqueSites(raw) IN Snapshot(sites, ForEachSite(raw, sites))

\* setSelectedSites(sites.length > 0 ? [sites[0]] : [])
InitialSelection(sites) == IF Len(sites) > 0 THEN <<sites[1]>> ELSE <<>>

(* ---------------------------- state ----------------------------------- *)

EmptyData ==
    [byYearSite |-> <<>>, differencesBySite |-> <<>>, integralBySite |-> <<>>,
     sites |-> <<>>, isLoading |-> TRUE, error |-> NULL]

Init ==
    /\ pc = "fetchPrimary"
    /\ data = EmptyData
    /\ selectedSites = <<>>
    /\ rawData = <<>>
    /\ matchedPoints = <<>>
    /\ processCalls = 0

\* The whole number of distance units in 10^-Decimals metres: stations this
\* far apart round to different keys.
StationStep == DistDenom \div (10 ^ Decimals)

\* The distances of the stations of a survey line.
Stations == {StationStep * i : i \in 0 .. MaxStations - 1}

RECURSIVE SurveyRows(_, _, _)
\* The rows of one year of a survey, one for each station up to distance d
\* that was sampled that year (the domain of elev), by ascending distance.
SurveyRows(year, elev, d) ==
    IF d < 0 THEN <<>>
    ELSE SurveyRows(year, elev, d - StationStep)
             \o (IF d \in DOMAIN elev
                 THEN <<[site |-> "AHA", year |-> year, distAlong |-> d,
                         elevation |-> elev[d]]>>
                 ELSE <<>>)

\* A fetch has delivered a single-site file and the parser holds its rows,
\* the 2021 rows followed by the 2024 rows: either any rows, at most
\* MaxGroupLen per year, or a survey of the stations, each year sampling
\* some of them once.
InitSite ==
    /\ pc = "parse"
    /\ data = EmptyData
    /\ selectedSites = <<>>
    /\ matchedPoints = <<>>
    /\ processCalls = 0
    /\ \/ \E j, k \in 0 .. MaxGroupLen :
              \E a \in [1 .. j -> Records({"AHA"}, {2021})],
                 b \in [1 .. k -> Records({"AHA"}, {2024})] : rawData = a \o b
       \/ \E early, late \in SUBSET Stations :
              \E a \in [early -> Elevations], b \in [late -> Elevations] :
                  rawData = SurveyRows(2021, a, StationStep * (MaxStations - 1))
                                \o SurveyRows(2024, b, StationStep * (MaxStations - 1))

(* ---------------------------- loadData -------------------------------- *)

FetchPrimaryOk ==
    /\ pc = "fetchPrimary"
    /\ pc' = "parse"
    /\ UNCHANGED <<data, selectedSites, rawData, matchedPoints, processCalls>>

\* fetch rejects, response.ok is false, or response.text() rejects
FetchPrimaryFail ==
    /\ pc = "fetchPrimary"
    /\ pc' = "fetchAlt"
    /\ UNCHANGED <<data, selectedSites, rawData, matchedPoints, processCalls>>

FetchAltOk ==
    /\ pc = "fetchAlt"
    /\ pc' = "parse"
    /\ UNCHANGED <<data, selectedSites, rawData, matchedPoints, processCalls>>

FetchAltFail ==
    /\ pc = "fetchAlt"
    /\ \E message \in LoadErrors :
           data' = [data EXCEPT !.error = message, !.isLoading = FALSE]
    /\ pc' = "failed"
    /\ UNCHANGED <<selectedSites, rawData, matchedPoints, processCalls>>

\* The message of the TypeError that row.distAlong.toFixed(3) throws.
TypeErrorMessage(distAlong) ==
    CASE distAlong = NullCell -> "Cannot read properties of null (reading 'toFixed')"
      [] distAlong = UndefinedCell ->
             "Cannot read properties of undefined (reading 'toFixed')"
      [] distAlong = TextCell -> "row.distAlong.toFixed is not a function"

\* The rows of one group on which toFixed throws.
Malformed(raw, site, year) ==
    {r \in Range(GroupBy(raw, site, year)) : r.distAlong \in NotANumber}

\* row.distAlong.toFixed(3) throws on some row: every row of a survey year
\* is reached by one of the two forEach loops unless an earlier row threw.
Throws(raw) ==
    \E i \in DOMAIN raw :
        raw[i].year \in {2021, 2024} /\ raw[i].distAlong \in NotANumber

\* The group in which the first throw happens: sites in Site Set order, the
\* 2021 loop of a site before its 2024 loop.
RECURSIVE FirstThrowingGroup(_, _)
FirstThrowingGroup(raw, sites) ==
    IF sites = <<>> THEN {}
    ELSE IF Malformed(raw, sites[1], 2021) # {} THEN Malformed(raw, sites[1], 2021)
    ELSE IF Malformed(raw, sites[1], 2024) # {} THEN Malformed(raw, sites[1], 2024)
    ELSE FirstThrowingGroup(raw, Tail(sites))

\* The messages the first throw can carry.  The loop walks the group in
\* sorted order and a.distAlong - b.distAlong is NaN for undefined and for
\* text, so which of several malformed rows of one group comes first is left
\* to the engine's sort; rows of one kind give one message.
ThrownMessages(raw) ==
    {TypeErrorMessage(r.distAlong) : r \in FirstThrowingGroup(raw, UniqueSites(raw))}

\* processData(rawData) up to and including its setData call; or, when a
\* row makes toFixed throw, up to the throw (setSelectedSites has run) and
\* on into the catch clause of loadData, which reports the TypeError.
Process(raw) ==
    LET sites == UniqueSites(raw)
        each == ForEachSite(raw, sites)
    IN  /\ rawData' = raw
        /\ selectedSites' = InitialSelection(sites)
        /\ processCalls' = processCalls + 1
        /\ IF Throws(raw)
           THEN /\ \E message \in ThrownMessages(raw) :
                       data' = [data EXCEPT !.error = message, !.isLoading = FALSE]
                /\ matchedPoints' = matchedPoints
                /\ pc' = "failed"
           ELSE /\ matchedPoints' = [s \in DOMAIN each |-> each[s].matchedPoints]
                /\ data' = Snapshot(sites, each)
                /\ pc' = "done"

\* Papa.parse complete callback: processData(results.data), the parsed rows
\* being any sequence of at most n of the given rows.
ParseComplete(rows, n) ==
    /\ pc = "parse"
    /\ \E k \in 0 .. n : \E raw \in [1 .. k -> rows] : Process(raw)

\* The same callback, on the rows the parser already holds.
ParseCompleteHeld ==
    /\ pc = "parse"
    /\ Process(rawData)

\* Papa.parse error callback
ParseError ==
    /\ pc = "parse"
    /\ \E message \in ParseErrors :
           data' = [data EXCEPT !.error = message, !.isLoading = FALSE]
    /\ pc' = "failed"
    /\ UNCHANGED <<selectedSites, rawData, matchedPoints, processCalls>>

(* ---------------------------- selection ------------------------------- *)

\* The buttons exist only once the component renders the dashboard.
Rendered == data.isLoading = FALSE /\ data.error = NULL

toggleSite(site) ==
    /\ Rendered
    /\ selectedSites' =
           IF site \in Range(selectedSites)
           THEN SelectSeq(selectedSites, LAMBDA s : s # site)
           ELSE Append(selectedSites, site)
    /\ UNCHANGED <<pc, data, rawData, matchedPoints, processCalls>>

\* Slip: selecting all runs the pipeline again.
selectAllSitesReprocess ==
    /\ Rendered
    /\ selectedSites' = data.sites
    /\ data' = processData(rawData)
    /\ processCalls' = processCalls + 1
    /\ UNCHANGED <<pc, rawData, matchedPoints>>

selectAllSites ==
    /\ Rendered
    /\ selectedSites' = data.sites
    /\ UNCHANGED <<pc, data, rawData, matchedPoints, processCalls>>

deselectAllSites ==
    /\ Rendered
    /\ selectedSites' = <<>>
    /\ UNCHANGED <<pc, data, rawData, matchedPoints, processCalls>>

ToggleAnySite == \E site \in Range(data.sites) : toggleSite(site)

(* ------------------------- specifications ----------------------------- *)

LoadStep(rows, n) ==
    \/ FetchPrimaryOk
    \/ FetchPrimaryFail
    \/ FetchAltOk
    \/ FetchAltFail
    \/ ParseComplete(rows, n)
    \/ ParseError

Select ==
    \/ ToggleAnySite
    \/ selectAllSites
    \/ deselectAllSites

\* The component on any file of at most MaxLen rows.
Next == LoadStep(ParsedRows(SiteNames, YearValues), MaxLen) \/ Select

Spec == Init /\ [][Next]_vars

\* The component on a file of one site.
NextOneSite == LoadStep(ParsedRows({"AHA"}, YearValues), MaxLen) \/ Select

\* Every pending promise settles and the parser calls back.
FairSpec ==
    Init /\ [][NextOneSite]_vars
         /\ WF_vars(LoadStep(ParsedRows({"AHA"}, YearValues), MaxLen))

\* The component on a file whose every row is a Raw Record.
NextRecords == LoadStep(Records(SiteNames, YearValues), MaxLen) \/ Select

RecordsSpec == Init /\ [][NextRecords]_vars

NextSite == ParseCompleteHeld

\* processData applied to every single-site data set.
SiteSpec == InitSite /\ [][NextSite]_vars

\* The parser holds any sequence of at most MaxPermLen rows of one site in
\* the survey years.
InitPerm ==
    /\ pc = "parse"
    /\ data = EmptyData
    /\ selectedSites = <<>>
    /\ matchedPoints = <<>>
    /\ processCalls = 0
    /\ \E k \in 0 .. MaxPermLen :
           rawData \in [1 .. k -> Records({"AHA"}, {2021, 2024})]

\* processData applied to every ordering of the rows of one site.
PermSpec == InitPerm /\ [][NextSite]_vars

(* ------------------------------ claims -------------------------------- *)

Done == pc = "done"

SiteSet == Range(data.sites)

\* Rounding keys that occur in a profile.
KeysOf(profile) == {toFixed(profile[i].distAlong) : i \in DOMAIN profile}

\* The record of a profile that comes last among those with rounding key k.
LastWithKey(profile, k) ==
    LET I == {i \in DOMAIN profile : toFixed(profile[i].distAlong) = k}
    IN  profile[CHOOSE i \in I : \A j \in I : j <= i]

Count(s, r) == Cardinality({i \in DOMAIN s : s[i] = r})

InGroup(r, site, year) == r.site = site /\ r.year = year

\* C1: for every site the Difference Series has as many entries as there are
\* distinct rounding keys occurring in both the 2021 and the 2024 profile.
C1_DifferenceLength ==
    Done =>
        \A site \in SiteSet :
            Len(data.differencesBySite[site]) =
                Cardinality(KeysOf(data.byYearSite[site][2021])
                            \cap KeysOf(data.byYearSite[site][2024]))

\* A key repeated within 2021, matched in 2024, and another key in 2024 only.
C1_Witness ==
    /\ Done
    /\ \E site \in SiteSet :
           LET p21 == data.byYearSite[site][2021]
               p24 == data.byYearSite[site][2024]
           IN  /\ Len(p21) = 2
               /\ Cardinality(KeysOf(p21)) = 1
               /\ KeysOf(p24) \ KeysOf(p21) # {}
               /\ Len(data.differencesBySite[site]) = 1

\* C2: the Integral Series has the length and the distances of the Difference
\* Series, starts at 0, and each later entry adds the trapezoid of the two
\* neighbouring differences (integrals counted in 1/(2*DistDenom) m^2).
C2_IntegralSeries ==
    Done =>
        \A site \in SiteSet :
            LET d == data.differencesBySite[site]
                g == data.integralBySite[site]
            IN  /\ Len(g) = Len(d)
                /\ \A i \in DOMAIN d :
                       /\ g[i].distAlong = d[i].distAlong
                       /\ Len(d[i].difference) = 1
                       /\ Len(g[i].integral) = 1
                /\ Len(g) > 0 => g[1].integral = Some(0)
                /\ \A i \in 2 .. Len(g) :
                       g[i].integral[1] =
                           g[i - 1].integral[1]
                           + (d[i].difference[1] + d[i - 1].difference[1])
                             * (d[i].distAlong - d[i - 1].distAlong)

\* Three matched points at unequal spacing, a station between two of them
\* unmatched: the integral is non-zero at the second, grows again at the
\* third, and the differences are not all equal.
C2_Witness ==
    /\ Done
    /\ \E site \in SiteSet :
           LET d == data.differencesBySite[site]
               g == data.integralBySite[site]
           IN  /\ Len(g) = 3
               /\ g[2].integral # Some(0)
               /\ g[3].integral # g[2].integral
               /\ g[3].integral # Some(0)
               /\ d[1].difference # d[2].difference
               /\ d[3].distAlong - d[2].distAlong # d[2].distAlong - d[1].distAlong

Injective(p) == \A i, j \in DOMAIN p : p[i] = p[j] => i = j

\* Every reordering of the record sequence s.
Permuted(s) ==
    {[i \in DOMAIN s |-> s[p[i]]] :
         p \in {q \in [DOMAIN s -> DOMAIN s] : Injective(q)}}

SameResults(raw) ==
    LET r == processData(raw)
    IN  /\ r.byYearSite = data.byYearSite
        /\ r.differencesBySite = data.differencesBySite
        /\ r.integralBySite = data.integralBySite

\* Records of one site and year at the same distAlong carry one elevation.
TiesAgree(raw) ==
    \A i, j \in DOMAIN raw :
        (raw[i].site = raw[j].site /\ raw[i].year = raw[j].year
         /\ raw[i].distAlong = raw[j].distAlong)
            => raw[i].elevation = raw[j].elevation

\* C3 as stated: every reordering of the input yields the same Profiles,
\* Difference Series and Integral Series, ties in distAlong included.
C3_AnyOrder == Done => \A q \in Permuted(rawData) : SameResults(q)

\* C3 amended: every reordering of the input yields the same Profiles,
\* Difference Series and Integral Series, provided records of one site and
\* year that share a distAlong value carry the same elevation.
C3_OrderWithoutTies ==
    (Done /\ TiesAgree(rawData)) => \A q \in Permuted(rawData) : SameResults(q)

\* Unsorted input, two 2021 rows in one rounding bucket with different
\* elevations, and a 2024 row matching the bucket.
C3_Witness ==
    /\ Done
    /\ TiesAgree(rawData)
    /\ Len(rawData) = 3
    /\ \E i, j \in DOMAIN rawData :
           /\ i < j
           /\ rawData[i].year = 2021 /\ rawData[j].year = 2021
           /\ rawData[i].distAlong > rawData[j].distAlong
           /\ toFixed(rawData[i].distAlong) = toFixed(rawData[j].distAlong)
           /\ rawData[i].elevation # rawData[j].elevation
    /\ \E site \in SiteSet : Len(data.differencesBySite[site]) = 1

\* C4: in every Matched Point diff is present exactly when both elevations
\* are present.
C4_DiffIffBoth ==
    Done =>
        \A site \in DOMAIN matchedPoints :
            \A i \in DOMAIN matchedPoints[site] :
                LET point == matchedPoints[site][i]
                IN  (point.diff # NoNumber)
                        <=> (point.elev2021 # NoNumber /\ point.elev2024 # NoNumber)

\* C5: the Matched Point of a rounding key carries the distAlong and the
\* elevation of the last 2021 record of that key, and the difference reported
\* for the key is the elevation of the last 2024 record of the key minus that
\* 2021 elevation; no error is raised.
C5_LastWriteWins ==
    Done =>
        /\ data.error = NULL
        /\ \A site \in SiteSet :
               LET p21 == data.byYearSite[site][2021]
                   p24 == data.byYearSite[site][2024]
                   mp == matchedPoints[site]
               IN  \A k \in KeysOf(p21) :
                       LET early == LastWithKey(p21, k)
                       IN  \E i \in DOMAIN mp :
                               /\ mp[i].key = k
                               /\ \A j \in DOMAIN mp : mp[j].key = k => j = i
                               /\ mp[i].distAlong = early.distAlong
                               /\ mp[i].elev2021 = Some(early.elevation)
                               /\ k \in KeysOf(p24) =>
                                      LET late == LastWithKey(p24, k)
                                          diff == late.elevation - early.elevation
                                      IN  /\ mp[i].elev2024 = Some(late.elevation)
                                          /\ mp[i].diff = Some(diff)
                                          /\ [distAlong |-> early.distAlong,
                                              difference |-> Some(diff)]
                                                 \in Range(data.differencesBySite[site])

\* Two 2021 records and two 2024 records in one bucket, the elevations of
\* each pair different.
C5_Witness ==
    /\ Done
    /\ \E site \in SiteSet :
           LET p21 == data.byYearSite[site][2021]
               p24 == data.byYearSite[site][2024]
           IN  /\ Len(p21) = 2 /\ Len(p24) = 2
               /\ Cardinality(KeysOf(p21) \cup KeysOf(p24)) = 1
               /\ p21[1].elevation # p21[2].elevation
               /\ p21[1].distAlong # p21[2].distAlong
               /\ p24[1].elevation # p24[2].elevation

\* C6: each profile holds exactly the input records of its site and year,
\* each once, in non-decreasing distAlong, records of equal distAlong in
\* input order; records of other years are in no profile, and processData
\* completes without error whatever years the records carry.
C6_Profiles ==
    /\ processCalls > 0 => Done
    /\ Done =>
           /\ data.error = NULL
           /\ DOMAIN data.byYearSite = SiteSet
           /\ \A site \in SiteSet : \A year \in {2021, 2024} :
                  LET p == data.byYearSite[site][year]
                  IN  /\ \A r \in Range(rawData) \cup Range(p) :
                             Count(p, r) =
                                 IF InGroup(r, site, year) THEN Count(rawData, r) ELSE 0
                      /\ \A i \in 1 .. Len(p) - 1 : p[i].distAlong <= p[i + 1].distAlong
                      /\ \A r \in Range(p) :
                             SelectSeq(p, LAMBDA x : x.distAlong = r.distAlong) =
                                 SelectSeq(rawData, LAMBDA x :
                                     InGroup(x, site, year) /\ x.distAlong = r.distAlong)

\* Two records of one group at the same distAlong with different elevations.
C6_Witness ==
    /\ Done
    /\ \E site \in SiteSet : \E year \in {2021, 2024} :
           LET p == data.byYearSite[site][year]
           IN  /\ Len(p) = 2
               /\ p[1].distAlong = p[2].distAlong
               /\ p[1].elevation # p[2].elevation

\* C7: a site without records for one of the survey years loads without
\* error; the profile of the missing year is empty, the other profile holds
\* all the site's records of its year, and the Difference Series and the
\* Integral Series of the site are empty.
C7_MissingGroup ==
    Done =>
        \A site \in SiteSet : \A year \in {2021, 2024} :
            LET other == IF year = 2021 THEN 2024 ELSE 2021
                p == data.byYearSite[site][other]
            IN  (\A r \in Range(rawData) : ~InGroup(r, site, year)) =>
                    /\ data.error = NULL
                    /\ data.isLoading = FALSE
                    /\ data.byYearSite[site][year] = <<>>
                    /\ Len(p) = Cardinality({i \in DOMAIN rawData :
                                                InGroup(rawData[i], site, other)})
                    /\ \A r \in Range(rawData) :
                           InGroup(r, site, other) => Count(p, r) = Count(rawData, r)
                    /\ data.differencesBySite[site] = <<>>
                    /\ data.integralBySite[site] = <<>>

\* A site surveyed in 2024 only, with two records in one rounding bucket.
C7_Witness ==
    /\ Done
    /\ \E site \in SiteSet :
           /\ data.byYearSite[site][2021] = <<>>
           /\ Len(data.byYearSite[site][2024]) = 2
           /\ Cardinality(KeysOf(data.byYearSite[site][2024])) = 1

Settled == pc \in {"done", "failed"}

NothingComputed ==
    /\ data.byYearSite = <<>>
    /\ data.differencesBySite = <<>>
    /\ data.integralBySite = <<>>
    /\ data.sites = <<>>

\* C8: loadData ends in exactly one of two states and stays there: the error
\* state (error set, not loading, processData never invoked, nothing
\* computed), entered only when both fetches failed or the parser reported an
\* error, or the loaded state (processData ran once, no error, not loading).
C8_LoadOutcome ==
    /\ [](pc = "failed" =>
              /\ data.error # NULL /\ data.isLoading = FALSE
              /\ processCalls = 0 /\ NothingComputed)
    /\ [](pc = "done" =>
              data.error = NULL /\ data.isLoading = FALSE /\ processCalls = 1)
    /\ [](~Settled => data.isLoading = TRUE /\ data.error = NULL /\ processCalls = 0)
    /\ [][pc' = "failed" => pc \in {"fetchAlt", "parse", "failed"}]_vars
    /\ [][(pc = "fetchAlt" /\ pc' = "parse") => data'.error = NULL]_vars
    /\ [][Settled => (pc' = pc /\ data' = data /\ processCalls' = processCalls)]_vars
    /\ <>Settled

\* C9: once the data is loaded, no step changes the computed values, the
\* loading flags or the number of processData runs.
C9_SelectionFrame ==
    [][Rendered =>
           /\ data' = data
           /\ processCalls' = processCalls
           /\ rawData' = rawData
           /\ pc' = pc]_vars

\* The selection differs from the initial one while the snapshot stands.
C9_Witness ==
    /\ Done
    /\ Len(data.sites) = 2
    /\ selectedSites = <<data.sites[2]>>
    /\ processCalls = 1
    /\ data = processData(rawData)

FirstIndex(raw, site) ==
    CHOOSE i \in DOMAIN raw :
        raw[i].site = site /\ \A j \in 1 .. i - 1 : raw[j].site # site

\* C10: once processData has been invoked, sites lists the distinct input
\* sites once each in order of first appearance; processData selects exactly
\* the first site (nothing for an empty input); the selection never holds a
\* duplicate or a site outside sites, so every selected site has profiles,
\* differences and integrals.
C10_Selection ==
    /\ [](processCalls > 0 =>
              /\ SiteSet = {rawData[i].site : i \in DOMAIN rawData}
              /\ Injective(data.sites)
              /\ \A i, j \in DOMAIN data.sites :
                     i < j => FirstIndex(rawData, data.sites[i])
                                  < FirstIndex(rawData, data.sites[j])
              /\ Injective(selectedSites)
              /\ Range(selectedSites) \subseteq SiteSet
              /\ \A site \in Range(selectedSites) :
                     /\ site \in DOMAIN data.byYearSite
                     /\ site \in DOMAIN data.differencesBySite
                     /\ site \in DOMAIN data.integralBySite)
    /\ [][processCalls' # processCalls =>
              selectedSites' = IF rawData' = <<>> THEN <<>> ELSE <<rawData'[1].site>>]_vars

====
